---- MODULE Spec2Model ----
(***************************************************************************)
(* A model of aslib's two ownership primitives:                            *)
(*   - aslib::Result<S,F>    (Result.hpp): a tagged union over raw storage *)
(*   - aslib::DeepCopyPtr<T> (DeepCopyPtr.hpp): an owning, cloning pointer *)
(* Each public operation is one action; the private helpers they call are  *)
(* operators with the helpers' names.                                      *)
(***************************************************************************)
EXTENDS Integers, Sequences, FiniteSets, TLC

VARIABLES
    res,    \* Result: the Result objects, by slot
    last,   \* Result: what the last operation was and what it did (observer)
    heap,   \* DeepCopyPtr: the heap objects, by address
    ptrs,   \* DeepCopyPtr: the DeepCopyPtr objects, by slot
    plast   \* DeepCopyPtr: what the last operation was and what it did (observer)

vars == <<res, last, heap, ptrs, plast>>
resultVars == <<res, last>>
ptrVars == <<heap, ptrs, plast>>

(***************************************************************************)
(* Bounds.                                                                 *)
(***************************************************************************)
NumResults == 2
MaxVal == 1

Results == 1..NumResults

(***************************************************************************)
(* Payload values.  A default-constructed payload has DefaultVal; a        *)
(* payload that was moved from holds MovedFrom, its type's moved-from      *)
(* value.                                                                  *)
(***************************************************************************)
DefaultVal == 0
MovedFrom == -1
Values == 0..MaxVal
PayloadVals == Values \cup {MovedFrom}

(***************************************************************************)
(* enum State, and a value of state_ outside the enum: what a state_ that  *)
(* was never written may hold besides the three enumerators.               *)
(***************************************************************************)
State == {"uninit", "succeeded", "failed"}
Indeterminate == "indeterminate"
StateBits == State \cup {Indeterminate}

Kinds == {"S", "F"}

\* The payload kinds T with std::is_pod<T>::value.  The instantiation modelled
\* is the test fixture's, Result<CoType<...>, CoType<...>>: neither is.
PodKinds == {}

\* The payload type a switch(state) case constructs, assigns or destroys.
KindOf(st) ==
    CASE st = "succeeded" -> "S"
      [] st = "failed" -> "F"
      [] OTHER -> "none"

StateOfKind(k) == IF k = "S" THEN "succeeded" ELSE "failed"

\* A slot no Result object lives in.
NoResult == [exists |-> FALSE, state |-> "uninit", live |-> "none", val |-> DefaultVal]

\* Where a payload is read from: a client's object holding v, or the
\* storage_ of the Result in slot i.
ExtLoc(v) == [ext |-> TRUE, v |-> v, i |-> 0]
ResLoc(i) == [ext |-> FALSE, v |-> DefaultVal, i |-> i]

Ev(e, r, k, ok) == [e |-> e, r |-> r, k |-> k, ok |-> ok]

\* Reading a payload of kind k at loc.  Storage that holds no live k object
\* reads as g, any value.
Read(M, loc, k, g) ==
    IF loc.ext THEN loc.v
    ELSE IF M.res[loc.i].live = k THEN M.res[loc.i].val ELSE g

\* The source of a move, afterwards.
MovedOut(M, loc, k) ==
    IF ~loc.ext /\ M.res[loc.i].live = k
    THEN [M EXCEPT !.res[loc.i].val = MovedFrom]
    ELSE M

\* Destoroyer<T>()(storage_): runs ~T() unless T is a POD type.
Destoroyer(M, r, k) ==
    [M EXCEPT !.res[r].live = "none",
              !.res[r].val = DefaultVal,
              !.ev = Append(@, Ev(IF k \in PodKinds THEN "release" ELSE "dtor",
                                  r, k, M.res[r].live = k))]

\* destroy that leaves state_ as it was.
destroy_KeepsState(M, r) ==
    LET st == M.res[r].state
    IN  IF st \in {"succeeded", "failed"} THEN Destoroyer(M, r, KindOf(st)) ELSE M

\* Result::destroy
destroy(M, r) ==
    LET st == M.res[r].state
        M1 == IF st \in {"succeeded", "failed"} THEN Destoroyer(M, r, KindOf(st)) ELSE M
    IN  [M1 EXCEPT !.res[r].state = "uninit"]

\* allocate that constructs the payload without reading the source.
allocate_NoValue(M, r, loc, srcState, g) ==
    LET k == KindOf(srcState)
        M1 == IF k = "none" THEN M
              ELSE [M EXCEPT !.res[r].live = k,
                             !.res[r].val = DefaultVal,
                             !.ev = Append(@, Ev("ctor_copy", r, k, TRUE))]
    IN  [M1 EXCEPT !.res[r].state = srcState]

\* Result::allocate(const void *src, State srcState): copy construction.
allocate(M, r, loc, srcState, g) ==
    LET k == KindOf(srcState)
        M1 == IF k = "none" THEN M
              ELSE [M EXCEPT !.res[r].live = k,
                             !.res[r].val = Read(M, loc, k, g),
                             !.ev = Append(@, Ev("ctor_copy", r, k, TRUE))]
    IN  [M1 EXCEPT !.res[r].state = srcState]

\* allocate(State) without its placement new: the assignment that follows
\* would then write onto storage that holds no object.
allocateDefault_NoConstruct(M, r, state) ==
    [M EXCEPT !.res[r].state = state]

\* Result::allocate(State state): default construction.
allocateDefault(M, r, state) ==
    LET k == KindOf(state)
        M1 == IF k = "none" THEN M
              ELSE [M EXCEPT !.res[r].live = k,
                             !.res[r].val = DefaultVal,
                             !.ev = Append(@, Ev("ctor_default", r, k, TRUE))]
    IN  [M1 EXCEPT !.res[r].state = state]

\* allocate_move that also empties the Result it moved from.
allocate_move_ResetsSource(M, r, loc, srcState, g) ==
    LET k == KindOf(srcState)
        M1 == IF k = "none" THEN M
              ELSE [M EXCEPT !.res[r].live = k,
                             !.res[r].val = Read(M, loc, k, g),
                             !.ev = Append(@, Ev("ctor_move", r, k, TRUE))]
        M2 == IF loc.ext THEN M1 ELSE destroy(M1, loc.i)
    IN  [M2 EXCEPT !.res[r].state = srcState]

\* allocate_move that copies: the payload's copy constructor, the source as
\* it was.
allocate_move_Copies(M, r, loc, srcState, g) ==
    LET k == KindOf(srcState)
        M1 == IF k = "none" THEN M
              ELSE [M EXCEPT !.res[r].live = k,
                             !.res[r].val = Read(M, loc, k, g),
                             !.ev = Append(@, Ev("ctor_copy", r, k, TRUE))]
    IN  [M1 EXCEPT !.res[r].state = srcState]

\* Result::allocate_move(void *src, State srcState): move construction.
allocate_move(M, r, loc, srcState, g) ==
    LET k == KindOf(srcState)
        M1 == IF k = "none" THEN M
              ELSE LET M0 == [M EXCEPT !.res[r].live = k,
                                       !.res[r].val = Read(M, loc, k, g),
                                       !.ev = Append(@, Ev("ctor_move", r, k, TRUE))]
                   IN  MovedOut(M0, loc, k)
    IN  [M1 EXCEPT !.res[r].state = srcState]

\* substitute without the destroy() of what the target holds.
substitute_NoDestroy(M, r, loc, srcState, g) ==
    LET k  == KindOf(srcState)
        M2 == IF srcState # "uninit" THEN allocateDefault(M, r, srcState) ELSE M
        M3 == IF k = "none" THEN M2
              ELSE [M2 EXCEPT !.res[r].val = Read(M2, loc, k, g),
                              !.ev = Append(@, Ev("assign_copy", r, k, TRUE))]
    IN  [M3 EXCEPT !.res[r].state = srcState]

\* Result::substitute(const void *src, State srcState)
substitute(M, r, loc, srcState, g) ==
    LET k  == KindOf(srcState)
        M1 == IF M.res[r].state # "uninit" THEN destroy(M, r) ELSE M
        M2 == IF srcState # "uninit" THEN allocateDefault(M1, r, srcState) ELSE M1
        M3 == IF k = "none" THEN M2
              ELSE [M2 EXCEPT !.res[r].val = Read(M2, loc, k, g),
                              !.ev = Append(@, Ev("assign_copy", r, k, TRUE))]
    IN  [M3 EXCEPT !.res[r].state = srcState]

\* Result::substitute_move(void *src, State srcState).  A payload moved onto
\* itself keeps its value or ends moved-from (selfKeep).
substitute_move(M, r, loc, srcState, g, selfKeep) ==
    LET k  == KindOf(srcState)
        M1 == IF M.res[r].state # "uninit" THEN destroy(M, r) ELSE M
        M2 == IF srcState # "uninit" THEN allocateDefault(M1, r, srcState) ELSE M1
        self == ~loc.ext /\ loc.i = r
        M3 == IF k = "none" THEN M2
              ELSE LET M0 == [M2 EXCEPT !.res[r].val = Read(M2, loc, k, g),
                                        !.ev = Append(@, Ev("assign_move", r, k, TRUE))]
                   IN  IF self /\ selfKeep THEN M0 ELSE MovedOut(M0, loc, k)
    IN  [M3 EXCEPT !.res[r].state = srcState]

\* Result::allocate(State state) when the payload's default constructor
\* throws: the placement new does not complete and state_ = state is not
\* reached.
allocateDefaultThrows(M, r, state) ==
    [M EXCEPT !.ev = Append(@, Ev("ctor_default_throws", r, KindOf(state), TRUE))]

\* Result::substitute and Result::substitute_move when a payload operation
\* throws, at == "ctor" in allocate(srcState), at == "assign" in the payload's
\* assignment operator, which leaves the payload assigned to with g, any
\* value.  moved says whether a throwing move assignment had already taken
\* the source's value.
substituteThrows(M, r, loc, srcState, at, g, moved) ==
    LET k  == KindOf(srcState)
        M1 == IF M.res[r].state # "uninit" THEN destroy(M, r) ELSE M
    IN  IF at = "ctor" THEN allocateDefaultThrows(M1, r, srcState)
        ELSE LET M2 == allocateDefault(M1, r, srcState)
                 M3 == [M2 EXCEPT !.res[r].val = g,
                                  !.ev = Append(@, Ev("assign_throws", r, k, TRUE))]
             IN  IF moved /\ (loc.ext \/ loc.i # r) THEN MovedOut(M3, loc, k) ELSE M3

\* Result::operator bool
OpBool(R) == R.state = "succeeded"

\* Result::operator* / operator->: the payload, or the exception raised.
Deref(R) == IF ~OpBool(R) THEN "CantDereference" ELSE "value"

\* Result::fail: the payload, or the exception raised.
Fail(R) == IF R.state = "failed" THEN "value" ELSE "NotHaveFailedObject"

(***************************************************************************)
(* The operations of Result.                                               *)
(***************************************************************************)
Start == [res |-> res, ev |-> <<>>]
Fresh(r) == [Start EXCEPT !.res[r].exists = TRUE]

\* What the observer keeps of a Result as it was before the operation.
Seen(R) == [state |-> R.state, live |-> R.live]

\* The operation is over: M is what it left.  The operand was the Result in
\* slot src, or (src = 0) a payload of kind k with value v, or nothing
\* (k = "none").
Done(op, dst, src, k, v, M) ==
    /\ res' = M.res
    /\ last' = [op |-> op, dst |-> dst, src |-> src, kind |-> k,
                val |-> IF src = 0 THEN v ELSE res[src].val,
                preDst |-> Seen(res[dst]),
                preSrc |-> IF src = 0 THEN Seen(NoResult) ELSE Seen(res[src]),
                ev |-> M.ev]
    /\ UNCHANGED ptrVars

\* What reading the payload of Result s as its state_ says may give, besides
\* the payload's value: any value, when storage_ holds no such object.
Unread(s) ==
    IF KindOf(res[s].state) = "none" \/ res[s].live = KindOf(res[s].state)
    THEN {DefaultVal} ELSE PayloadVals

\* Where a Result is constructed.  The slots are alike: the next object
\* takes the first that is free.
FreeSlot(r) == ~res[r].exists /\ \A q \in 1..(r - 1) : res[q].exists

\* Result()
DefaultConstruct(r) ==
    /\ FreeSlot(r)
    /\ Done("Result()", r, 0, "none", DefaultVal, [Fresh(r) EXCEPT !.res[r].state = "uninit"])

\* Result(const SucceededType &), Result(const FailedType &)
CopyConstructFromValue(r, k, v) ==
    /\ FreeSlot(r)
    /\ Done("Result(const T&)", r, 0, k, v,
            allocate(Fresh(r), r, ExtLoc(v), StateOfKind(k), DefaultVal))

\* Result(SucceededType &&), Result(FailedType &&)
MoveConstructFromValue(r, k, v) ==
    /\ FreeSlot(r)
    /\ Done("Result(T&&)", r, 0, k, v,
            allocate_move(Fresh(r), r, ExtLoc(v), StateOfKind(k), DefaultVal))

\* Result(const Result &src): state_ has no initializer, and the early
\* return for an uninit source leaves it unwritten: it holds s0, any value.
CopyConstruct(r, s) ==
    /\ FreeSlot(r)
    /\ res[s].exists
    /\ IF res[s].state = "uninit"
       THEN \E s0 \in StateBits :
              Done("Result(const Result&)", r, s, "none", DefaultVal,
                   [Fresh(r) EXCEPT !.res[r].state = s0])
       ELSE \E g \in Unread(s) :
              Done("Result(const Result&)", r, s, "none", DefaultVal,
                   allocate(Fresh(r), r, ResLoc(s), res[s].state, g))

\* Result(Result &&src) : state_(uninit)
MoveConstruct(r, s) ==
    /\ FreeSlot(r)
    /\ res[s].exists
    /\ \E g \in Unread(s) :
         LET M == [Fresh(r) EXCEPT !.res[r].state = "uninit"]
         IN  Done("Result(Result&&)", r, s, "none", DefaultVal,
                  IF res[s].state = "uninit" THEN M
                  ELSE allocate_move(M, r, ResLoc(s), res[s].state, g))

\* ~Result()
Destruct(r) ==
    /\ res[r].exists
    /\ LET M == destroy(Start, r)
       IN  Done("~Result()", r, 0, "none", DefaultVal, [M EXCEPT !.res[r] = NoResult])

\* operator=(const SucceededType &), operator=(const FailedType &)
AssignValue(r, k, v) ==
    /\ res[r].exists
    /\ Done("=(const T&)", r, 0, k, v,
            substitute(Start, r, ExtLoc(v), StateOfKind(k), DefaultVal))

\* operator=(SucceededType &&), operator=(FailedType &&)
MoveAssignValue(r, k, v) ==
    /\ res[r].exists
    /\ Done("=(T&&)", r, 0, k, v,
            substitute_move(Start, r, ExtLoc(v), StateOfKind(k), DefaultVal, TRUE))

\* operator=(const Result &rhs), rhs == *this included
Assign(r, s) ==
    /\ res[r].exists
    /\ res[s].exists
    /\ \E g \in Unread(s) :
         Done("=(const Result&)", r, s, "none", DefaultVal,
              substitute(Start, r, ResLoc(s), res[s].state, g))

\* operator=(Result &&rhs), rhs == *this included
MoveAssign(r, s) ==
    /\ res[r].exists
    /\ res[s].exists
    /\ \E g \in Unread(s), selfKeep \in (IF r = s THEN BOOLEAN ELSE {TRUE}) :
         Done("=(Result&&)", r, s, "none", DefaultVal,
              substitute_move(Start, r, ResLoc(s), res[s].state, g, selfKeep))

ThrowPoints == {"ctor", "assign"}

\* operator=(const SucceededType &), operator=(SucceededType &&) and the two
\* for FailedType, when the payload's default constructor or its assignment
\* operator throws
AssignValueThrows(r, k, at) ==
    /\ res[r].exists
    /\ \E g \in (IF at = "assign" THEN Values ELSE {DefaultVal}) :
         Done("=(T) throws", r, 0, k, DefaultVal,
              substituteThrows(Start, r, ExtLoc(DefaultVal), StateOfKind(k), at, g, FALSE))

\* operator=(const Result &rhs), operator=(Result &&rhs) with rhs Succeeded
\* or Failed, when the payload's default constructor or its assignment
\* operator throws
AssignThrows(r, s, at) ==
    /\ res[r].exists
    /\ res[s].exists
    /\ KindOf(res[s].state) # "none"
    /\ \E g \in (IF at = "assign" THEN Values ELSE {DefaultVal}),
          moved \in (IF at = "assign" /\ r # s /\ res[s].live = KindOf(res[s].state)
                     THEN BOOLEAN ELSE {FALSE}) :
         Done("=(Result) throws", r, 0, "none", DefaultVal,
              substituteThrows(Start, r, ResLoc(s), res[s].state, at, g, moved))

NextResult ==
    \E r \in Results :
       \/ DefaultConstruct(r)
       \/ \E k \in Kinds, v \in Values : CopyConstructFromValue(r, k, v)
       \/ \E k \in Kinds, v \in Values : MoveConstructFromValue(r, k, v)
       \/ \E s \in Results : CopyConstruct(r, s)
       \/ \E s \in Results : MoveConstruct(r, s)
       \/ Destruct(r)
       \/ \E k \in Kinds, v \in Values : AssignValue(r, k, v)
       \/ \E k \in Kinds, v \in Values : MoveAssignValue(r, k, v)
       \/ \E s \in Results : Assign(r, s)
       \/ \E s \in Results : MoveAssign(r, s)

\* The assignments in which a payload operation throws.
NextThrows ==
    \E r \in Results :
       \/ \E k \in Kinds, at \in ThrowPoints : AssignValueThrows(r, k, at)
       \/ \E s \in Results, at \in ThrowPoints : AssignThrows(r, s, at)

NoOp == [op |-> "none", dst |-> 0, src |-> 0, kind |-> "none",
         val |-> DefaultVal,
         preDst |-> Seen(NoResult), preSrc |-> Seen(NoResult), ev |-> <<>>]

InitResult ==
    /\ res = [r \in Results |-> NoResult]
    /\ last = NoOp

(***************************************************************************)
(* DeepCopyPtr<Type>.  The element types are those of the tests: C, and D  *)
(* derived from C; a pointee's value is its i_.  Address NULL is the null  *)
(* pointer, ExtAddr the address of an object of the client's that is not   *)
(* on the modelled heap.                                                   *)
(***************************************************************************)
NumPtrs == 2
MaxAddr == 3

NULL == 0
Ptrs == 1..NumPtrs
Addrs == 1..MaxAddr
ExtAddr == MaxAddr + 1
Types == {"C", "D"}

\* DeepCopyPtr<C> accepts a DeepCopyPtr<D> or a D *; nothing else converts.
IsDerived(d, b) == d = "D" /\ b = "C"

NoObject == [live |-> FALSE, type |-> "C", val |-> DefaultVal]
NoPtr == [exists |-> FALSE, inst |-> "C", ptr |-> NULL, deleter |-> "null"]

PEv(e, a, ty, ok) == [e |-> e, a |-> a, t |-> ty, ok |-> ok]

PStart == [heap |-> heap, ptrs |-> ptrs, ev |-> <<>>]
PFresh(p, inst) == [PStart EXCEPT !.ptrs[p].exists = TRUE, !.ptrs[p].inst = inst]

FreeAddrs(h) == {a \in Addrs : ~h[a].live}

\* Where the allocator may place the next object on heap h: at any free
\* address.  The free addresses that no DeepCopyPtr holds are all alike, and
\* the lowest stands for them.
AllocChoices(h) ==
    LET held == {ptrs[q].ptr : q \in Ptrs}
        stale == FreeAddrs(h) \cap held
        clean == FreeAddrs(h) \ held
    IN  stale \cup {a \in clean : \A b \in clean : a <= b}

\* A pointer argument: null, or the address of an object with value val.
NullArg == [addr |-> NULL, val |-> DefaultVal]
Arg(a, v) == [addr |-> a, val |-> v]

\* new ty(v), which the allocator places at a.
New(M, a, ty, v) ==
    [M EXCEPT !.heap[a] = [live |-> TRUE, type |-> ty, val |-> v],
              !.ev = Append(@, PEv("new", a, ty, TRUE))]

\* new Deleter<ty>()
NewDeleter(M, ty) == [M EXCEPT !.ev = Append(@, PEv("new_deleter", NULL, ty, TRUE))]

\* *src as read by a copy constructor: g, any value, when no object lives
\* at src.
ValAt(M, src, g) ==
    IF src.addr = ExtAddr THEN src.val
    ELSE IF M.heap[src.addr].live THEN M.heap[src.addr].val ELSE g

\* Deleter<ty>::operator()(p): delete static_cast<ty *>(p).  The event is ok
\* when p is a live object that was allocated as a ty.
DeleterCall(M, ty, a) ==
    IF a = NULL THEN M
    ELSE [M EXCEPT !.heap[a] = NoObject,
                   !.ev = Append(@, PEv("delete", a, ty,
                                        M.heap[a].live /\ M.heap[a].type = ty))]

\* doDelete on the fields f of an object (a slot's, or a temporary's).
DeleteFields(M, f) ==
    IF f.deleter = "null" THEN M
    ELSE LET M1 == DeleterCall(M, f.deleter, f.ptr)
         IN  [M1 EXCEPT !.ev = Append(@, PEv("delete_deleter", NULL, f.deleter, TRUE))]

\* DeepCopyPtr::doDelete
doDelete(M, p) ==
    IF M.ptrs[p].deleter = "null" THEN M
    ELSE [DeleteFields(M, M.ptrs[p]) EXCEPT !.ptrs[p].ptr = NULL,
                                            !.ptrs[p].deleter = "null"]

\* The member initializers ptr_(p), deleter_(p ? new Deleter<ty>() : 0)
Adopt(M, p, a, ty) ==
    IF a = NULL
    THEN [M EXCEPT !.ptrs[p].ptr = NULL, !.ptrs[p].deleter = "null"]
    ELSE [NewDeleter(M, ty) EXCEPT !.ptrs[p].ptr = a, !.ptrs[p].deleter = ty]

\* The member initializers ptr_(src ? new ty(*src) : 0),
\* deleter_(src ? new Deleter<ty>() : 0)
Clone(M, p, src, ty, a, g) ==
    IF src.addr = NULL
    THEN [M EXCEPT !.ptrs[p].ptr = NULL, !.ptrs[p].deleter = "null"]
    ELSE [NewDeleter(New(M, a, ty, ValAt(M, src, g)), ty)
             EXCEPT !.ptrs[p].ptr = a, !.ptrs[p].deleter = ty]

\* swap that exchanges the pointers and leaves the deleters.
swap_PointerOnly(M, p, q) ==
    [M EXCEPT !.ptrs[p].ptr = M.ptrs[q].ptr,
              !.ptrs[q].ptr = M.ptrs[p].ptr]

\* DeepCopyPtr::swap: std::swap(ptr_, other.ptr_);
\* std::swap(deleter_, other.deleter_);
swap(M, p, q) ==
    [M EXCEPT !.ptrs[p].ptr = M.ptrs[q].ptr,
              !.ptrs[p].deleter = M.ptrs[q].deleter,
              !.ptrs[q].ptr = M.ptrs[p].ptr,
              !.ptrs[q].deleter = M.ptrs[p].deleter]

\* reset that runs doDelete on what *this holds before it adopts p.
ResetBySwap_DeletesFirst(M, p, a, ty) ==
    Adopt(DeleteFields(M, M.ptrs[p]), p, a, ty)

\* ThisType(p).swap(*this), and the temporary's destructor: the temporary
\* adopts a with a Deleter<ty>, the fields are exchanged, and doDelete runs on
\* what *this held.
ResetBySwap(M, p, a, ty) ==
    LET old == M.ptrs[p]
        M1  == Adopt(M, p, a, ty)
    IN  DeleteFields(M1, old)

\* operator bool / get()
PBool(f) == f.ptr # NULL

\* What the observer keeps of a source: its address and its pointee's value.
SrcOf(M, src) ==
    IF src.addr = NULL \/ src.addr = ExtAddr THEN src
    ELSE Arg(src.addr, M.heap[src.addr].val)

\* The operations that an exception leaves.
PThrowOps == {"DeepCopyPtr(T*) throws", "DeepCopyPtr(const DeepCopyPtr&) throws",
              "DeepCopyPtr(const T*) throws", "=(const DeepCopyPtr&) throws",
              "=(const T*) throws"}

\* The operation is over: M is what it left.  An exception that leaves an
\* operation ends the run: the client's sequence of operations stops there.
PDone(op, dst, s, src, M) ==
    /\ plast.op \notin PThrowOps
    /\ heap' = M.heap
    /\ ptrs' = M.ptrs
    /\ plast' = [op |-> op, dst |-> dst, src |-> s, arg |-> SrcOf(PStart, src),
                 pre |-> ptrs[dst],
                 preSrc |-> IF s = 0 THEN NoPtr ELSE ptrs[s],
                 ev |-> M.ev]
    /\ UNCHANGED resultVars

\* The pointer a DeepCopyPtr holds, as an argument.
Held(q) == Arg(ptrs[q].ptr, DefaultVal)

\* What a dead pointee may read as.
Garbage(src) ==
    IF src.addr \in Addrs /\ ~heap[src.addr].live THEN Values ELSE {DefaultVal}

\* The objects on the heap that a const ty * of the client's may point to:
\* those some DeepCopyPtr holds.
Pointees(ty) ==
    {a \in Addrs : /\ heap[a].live
                   /\ (ty = "C" \/ heap[a].type = ty)
                   /\ \E q \in Ptrs : ptrs[q].exists /\ ptrs[q].ptr = a}

\* The client's const ty * arguments: null, an object of its own, a pointee.
ConstArgs(ty) ==
    {NullArg} \cup {Arg(ExtAddr, v) : v \in Values}
              \cup {Arg(a, DefaultVal) : a \in Pointees(ty)}

(***************************************************************************)
(* The operations of DeepCopyPtr.                                          *)
(***************************************************************************)
\* DeepCopyPtr()
PDefaultConstruct(p, inst) ==
    /\ ~ptrs[p].exists
    /\ PDone("DeepCopyPtr()", p, 0, NullArg,
             [PFresh(p, inst) EXCEPT !.ptrs[p].ptr = NULL, !.ptrs[p].deleter = "null"])

\* DeepCopyPtr(element_type *p), p null
PConstructNull(p, inst) ==
    /\ ~ptrs[p].exists
    /\ PDone("DeepCopyPtr(T*)", p, 0, NullArg, Adopt(PFresh(p, inst), p, NULL, inst))

\* DeepCopyPtr(element_type *p), p = new element_type(v)
PConstructAdopt(p, inst, a, v) ==
    /\ ~ptrs[p].exists
    /\ a \in AllocChoices(heap)
    /\ PDone("DeepCopyPtr(T*)", p, 0, Arg(a, v),
             Adopt(New(PFresh(p, inst), a, inst, v), p, a, inst))

\* DeepCopyPtr(DerivedType *p) of DeepCopyPtr<C>, p = new D(v)
PConstructAdoptDerived(p, a, v) ==
    /\ ~ptrs[p].exists
    /\ a \in AllocChoices(heap)
    /\ PDone("DeepCopyPtr(D*)", p, 0, Arg(a, v),
             Adopt(New(PFresh(p, "C"), a, "D", v), p, a, "D"))

\* DeepCopyPtr(const ThisType &src)
PCopyConstruct(p, s) ==
    /\ ~ptrs[p].exists
    /\ ptrs[s].exists
    /\ LET inst == ptrs[s].inst
       IN  \E a \in (IF PBool(ptrs[s]) THEN AllocChoices(heap) ELSE {NULL}),
              g \in Garbage(Held(s)) :
               PDone("DeepCopyPtr(const ThisType&)", p, s, Held(s),
                     Clone(PFresh(p, inst), p, Held(s), inst, a, g))

\* DeepCopyPtr(const DeepCopyPtr<SomeType> &src): a DeepCopyPtr<C> from a
\* DeepCopyPtr<D>
PCopyConstructFromDerived(p, s) ==
    /\ ~ptrs[p].exists
    /\ ptrs[s].exists
    /\ IsDerived(ptrs[s].inst, "C")
    /\ \E a \in (IF PBool(ptrs[s]) THEN AllocChoices(heap) ELSE {NULL}),
          g \in Garbage(Held(s)) :
           PDone("DeepCopyPtr(const DeepCopyPtr<D>&)", p, s, Held(s),
                 Clone(PFresh(p, "C"), p, Held(s), ptrs[s].inst, a, g))

\* DeepCopyPtr(const element_type *src)
PConstructFromConst(p, inst, src) ==
    /\ ~ptrs[p].exists
    /\ src \in ConstArgs(inst)
    /\ \E a \in (IF src.addr # NULL THEN AllocChoices(heap) ELSE {NULL}) :
           PDone("DeepCopyPtr(const T*)", p, 0, src,
                 Clone(PFresh(p, inst), p, src, inst, a, DefaultVal))

\* ~DeepCopyPtr()
PDestruct(p) ==
    /\ ptrs[p].exists
    /\ PDone("~DeepCopyPtr()", p, 0, NullArg,
             [doDelete(PStart, p) EXCEPT !.ptrs[p] = NoPtr])

\* swap(ThisType &other)
PSwap(p, q) ==
    /\ ptrs[p].exists
    /\ ptrs[q].exists
    /\ ptrs[p].inst = ptrs[q].inst
    /\ PDone("swap", p, q, Held(q), swap(PStart, p, q))

\* reset(element_type *p = 0) with the pointer held, or null
PReset(p, src) ==
    /\ ptrs[p].exists
    /\ src \in {NullArg, Held(p)}
    /\ PDone("reset(T*)", p, 0, src,
             IF src.addr = ptrs[p].ptr THEN PStart
             ELSE ResetBySwap(PStart, p, src.addr, ptrs[p].inst))

\* reset(element_type *p), p = new element_type(v)
PResetNew(p, a, v) ==
    /\ ptrs[p].exists
    /\ a \in AllocChoices(heap)
    /\ LET M == New(PStart, a, ptrs[p].inst, v)
       IN  PDone("reset(T*)", p, 0, Arg(a, v),
                 IF a = ptrs[p].ptr THEN M
                 ELSE ResetBySwap(M, p, a, ptrs[p].inst))

\* reset(Other *p) of DeepCopyPtr<C>, Other = D: with a null D *, or with
\* the pointer held when it points to a D
PResetDerived(p, src) ==
    /\ ptrs[p].exists
    /\ ptrs[p].inst = "C"
    /\ \/ src = NullArg
       \/ /\ src = Held(p)
          /\ ptrs[p].ptr \in Pointees("D")
    /\ PDone("reset(D*)", p, 0, src, ResetBySwap(PStart, p, src.addr, "D"))

\* reset(Other *p) of DeepCopyPtr<C>, p = new D(v)
PResetDerivedNew(p, a, v) ==
    /\ ptrs[p].exists
    /\ ptrs[p].inst = "C"
    /\ a \in AllocChoices(heap)
    /\ PDone("reset(D*)", p, 0, Arg(a, v),
             ResetBySwap(New(PStart, a, "D", v), p, a, "D"))

\* operator=(const ThisType &rhs)
PAssign(p, s) ==
    /\ ptrs[p].exists
    /\ ptrs[s].exists
    /\ ptrs[p].inst = ptrs[s].inst
    /\ LET inst == ptrs[p].inst
           M1 == doDelete(PStart, p)
       IN  IF p = s THEN PDone("=(const ThisType&)", p, s, Held(s), PStart)
           ELSE \E a \in (IF PBool(ptrs[s]) THEN AllocChoices(M1.heap) ELSE {NULL}),
                   g \in Garbage(Held(s)) :
                    PDone("=(const ThisType&)", p, s, Held(s),
                          IF PBool(ptrs[s])
                          THEN [NewDeleter(New(M1, a, inst, ValAt(M1, Held(s), g)), inst)
                                   EXCEPT !.ptrs[p].ptr = a, !.ptrs[p].deleter = inst]
                          ELSE M1)

\* operator=(const DeepCopyPtr<DerivedType> &rhs): to a DeepCopyPtr<C> from a
\* DeepCopyPtr<D>
PAssignFromDerived(p, s) ==
    /\ ptrs[p].exists
    /\ ptrs[s].exists
    /\ IsDerived(ptrs[s].inst, ptrs[p].inst)
    /\ LET inst == ptrs[p].inst
           M1 == doDelete(PStart, p)
       IN  \E a \in (IF PBool(ptrs[s]) THEN AllocChoices(M1.heap) ELSE {NULL}),
              g \in Garbage(Held(s)) :
               PDone("=(const DeepCopyPtr<D>&)", p, s, Held(s),
                     IF PBool(ptrs[s])
                     THEN [NewDeleter(New(M1, a, inst, ValAt(M1, Held(s), g)), ptrs[s].inst)
                              EXCEPT !.ptrs[p].ptr = a, !.ptrs[p].deleter = ptrs[s].inst]
                     ELSE M1)

\* The assignment from a pointer that takes the pointer over instead of
\* copying what it points to.
AssignClone_Adopts(M, p, src, ty, a, g) ==
    [NewDeleter([M EXCEPT !.ptrs[p].ptr = src.addr], ty) EXCEPT !.ptrs[p].deleter = ty]

\* ptr_ = rhs ? new ty(*rhs) : 0; deleter_ = new Deleter<ty>();
AssignClone(M, p, src, ty, a, g) ==
    LET M1 == IF src.addr = NULL THEN [M EXCEPT !.ptrs[p].ptr = NULL]
              ELSE [New(M, a, ty, ValAt(M, src, g)) EXCEPT !.ptrs[p].ptr = a]
    IN  [NewDeleter(M1, ty) EXCEPT !.ptrs[p].deleter = ty]

\* What *rhs may read as once doDelete has run in the assignment to p.
GarbageAfterDelete(p, src) ==
    IF src.addr \in Addrs /\ (src.addr = ptrs[p].ptr \/ ~heap[src.addr].live)
    THEN Values ELSE {DefaultVal}

\* operator=(const element_type *const rhs)
PAssignPointer(p, src) ==
    /\ ptrs[p].exists
    /\ src \in ConstArgs(ptrs[p].inst)
    /\ LET inst == ptrs[p].inst
           M1 == doDelete(PStart, p)
       IN  IF ptrs[p].ptr = src.addr THEN PDone("=(const T*)", p, 0, src, PStart)
           ELSE \E a \in (IF src.addr # NULL THEN AllocChoices(M1.heap) ELSE {NULL}) :
                    PDone("=(const T*)", p, 0, src,
                          AssignClone(M1, p, src, inst, a, DefaultVal))

\* operator=(const SomeType *const rhs): to a DeepCopyPtr<C> from a const D *
PAssignDerivedPointer(p, src) ==
    /\ ptrs[p].exists
    /\ ptrs[p].inst = "C"
    /\ src \in ConstArgs("D")
    /\ LET M1 == doDelete(PStart, p)
       IN  \E a \in (IF src.addr # NULL THEN AllocChoices(M1.heap) ELSE {NULL}),
              g \in GarbageAfterDelete(p, src) :
               PDone("=(const D*)", p, 0, src, AssignClone(M1, p, src, "D", a, g))

NextPtr ==
    \E p \in Ptrs :
       \/ \E inst \in Types : PDefaultConstruct(p, inst)
       \/ \E inst \in Types : PConstructNull(p, inst)
       \/ \E inst \in Types, a \in Addrs, v \in Values : PConstructAdopt(p, inst, a, v)
       \/ \E a \in Addrs, v \in Values : PConstructAdoptDerived(p, a, v)
       \/ \E s \in Ptrs : PCopyConstruct(p, s)
       \/ \E s \in Ptrs : PCopyConstructFromDerived(p, s)
       \/ \E inst \in Types : \E src \in ConstArgs(inst) :
              PConstructFromConst(p, inst, src)
       \/ PDestruct(p)
       \/ \E q \in Ptrs : PSwap(p, q)
       \/ \E src \in {NullArg, Held(p)} : PReset(p, src)
       \/ \E a \in Addrs, v \in Values : PResetNew(p, a, v)
       \/ \E src \in {NullArg, Held(p)} : PResetDerived(p, src)
       \/ \E a \in Addrs, v \in Values : PResetDerivedNew(p, a, v)
       \/ \E s \in Ptrs : PAssign(p, s)
       \/ \E s \in Ptrs : PAssignFromDerived(p, s)
       \/ \E src \in ConstArgs(ptrs[p].inst) : PAssignPointer(p, src)
       \/ \E src \in ConstArgs("D") : PAssignDerivedPointer(p, src)

\* new Deleter<ty>() that throws std::bad_alloc: no capability object is
\* allocated.
NewDeleterThrows(M, ty) ==
    [M EXCEPT !.ev = Append(@, PEv("new_deleter_throws", NULL, ty, TRUE))]

\* new ty(*src) in which the copy constructor of ty throws: the new
\* expression releases the memory, and no object is left.
NewThrows(M, ty) ==
    [M EXCEPT !.ev = Append(@, PEv("new_throws", NULL, ty, TRUE))]

\* Where an operation that clones may throw: in the pointee's copy
\* constructor, or in the allocation of the deleter that follows it.
PThrowPoints == {"copy", "deleter"}

\* ptr_ = <new ty(*src), the clone at a, or null>; deleter_ = new Deleter<ty>()
\* when one of the two throws: the assignment to ptr_ is done when the second
\* throws.
AssignCloneThrows(M, p, src, ty, a, g, at) ==
    IF at = "copy" THEN NewThrows(M, ty)
    ELSE LET M1 == IF src.addr = NULL THEN [M EXCEPT !.ptrs[p].ptr = NULL]
                   ELSE [New(M, a, ty, ValAt(M, src, g)) EXCEPT !.ptrs[p].ptr = a]
         IN  NewDeleterThrows(M1, ty)

\* Where the clone is placed and what a dead source reads as, for a throw
\* at `at`: only a throw in the deleter's allocation has a clone.
CloneAddrs(h, at) == IF at = "deleter" THEN AllocChoices(h) ELSE {NULL}
CloneGarbage(gs, at) == IF at = "deleter" THEN gs ELSE {DefaultVal}

\* DeepCopyPtr(element_type *p) and DeepCopyPtr(DerivedType *p) with
\* p = new ty(v), when new Deleter<ty>() throws: the constructor is left by
\* the exception, no DeepCopyPtr exists, and nothing deletes p.
PConstructAdoptThrows(p, inst, ty, a, v) ==
    /\ ~ptrs[p].exists
    /\ ty = inst \/ IsDerived(ty, inst)
    /\ a \in AllocChoices(heap)
    /\ PDone("DeepCopyPtr(T*) throws", p, 0, Arg(a, v),
             NewDeleterThrows(New(PStart, a, ty, v), ty))

\* DeepCopyPtr(const ThisType &src) and DeepCopyPtr(const DeepCopyPtr<SomeType>
\* &src) with src non-null, when a member initializer throws: ptr_ is a plain
\* pointer, and nothing deletes the clone it was initialized with.
PCopyConstructThrows(p, s, at) ==
    /\ ~ptrs[p].exists
    /\ ptrs[s].exists
    /\ PBool(ptrs[s])
    /\ \E a \in CloneAddrs(heap, at), g \in CloneGarbage(Garbage(Held(s)), at) :
           PDone("DeepCopyPtr(const DeepCopyPtr&) throws", p, s, Held(s),
                 [AssignCloneThrows(PStart, p, Held(s), ptrs[s].inst, a, g, at)
                     EXCEPT !.ptrs[p] = NoPtr])

\* DeepCopyPtr(const element_type *src) with src non-null, when a member
\* initializer throws
PConstructFromConstThrows(p, inst, src, at) ==
    /\ ~ptrs[p].exists
    /\ src \in ConstArgs(inst)
    /\ src.addr # NULL
    /\ \E a \in CloneAddrs(heap, at) :
           PDone("DeepCopyPtr(const T*) throws", p, 0, src,
                 [AssignCloneThrows(PStart, p, src, inst, a, DefaultVal, at)
                     EXCEPT !.ptrs[p] = NoPtr])

\* operator=(const ThisType &rhs) and operator=(const DeepCopyPtr<DerivedType>
\* &rhs) with rhs non-null and not *this, when new element_type(*rhs.ptr_) or
\* the new Deleter after it throws
PAssignThrows(p, s, at) ==
    /\ ptrs[p].exists
    /\ ptrs[s].exists
    /\ p # s
    /\ ptrs[p].inst = ptrs[s].inst \/ IsDerived(ptrs[s].inst, ptrs[p].inst)
    /\ PBool(ptrs[s])
    /\ LET M1 == doDelete(PStart, p)
       IN  \E a \in CloneAddrs(M1.heap, at), g \in CloneGarbage(Garbage(Held(s)), at) :
               PDone("=(const DeepCopyPtr&) throws", p, s, Held(s),
                     AssignCloneThrows(M1, p, Held(s), ptrs[p].inst, a, g, at))

\* operator=(const element_type *const rhs) with rhs not the pointer held
\* (ty the element type) and operator=(const SomeType *const rhs) (ty = D, to
\* a DeepCopyPtr<C>), when new ty(*rhs) or the new Deleter<ty> after it throws
PAssignPointerThrows(p, src, ty, at) ==
    /\ ptrs[p].exists
    /\ \/ ty = ptrs[p].inst /\ ptrs[p].ptr # src.addr
       \/ IsDerived(ty, ptrs[p].inst)
    /\ src \in ConstArgs(ty)
    /\ at = "copy" => src.addr # NULL
    /\ LET M1 == doDelete(PStart, p)
       IN  \E a \in (IF src.addr # NULL THEN CloneAddrs(M1.heap, at) ELSE {NULL}),
              g \in CloneGarbage(IF ty = ptrs[p].inst THEN {DefaultVal}
                                 ELSE GarbageAfterDelete(p, src), at) :
               PDone("=(const T*) throws", p, 0, src,
                     AssignCloneThrows(M1, p, src, ty, a, g, at))

\* The constructions and assignments in which an allocation or the pointee's
\* copy constructor throws.
NextPtrThrows ==
    \E p \in Ptrs :
       \/ \E inst \in Types, ty \in Types, a \in Addrs, v \in Values :
              PConstructAdoptThrows(p, inst, ty, a, v)
       \/ \E s \in Ptrs, at \in PThrowPoints : PCopyConstructThrows(p, s, at)
       \/ \E inst \in Types, at \in PThrowPoints : \E src \in ConstArgs(inst) :
              PConstructFromConstThrows(p, inst, src, at)
       \/ \E s \in Ptrs, at \in PThrowPoints : PAssignThrows(p, s, at)
       \/ \E ty \in Types, at \in PThrowPoints : \E src \in ConstArgs(ty) :
              PAssignPointerThrows(p, src, ty, at)

\* The operations of DeepCopyPtr in the runs in which the client hands each
\* raw pointer over for adoption once: reset is called with null or with a
\* new object, never again with the pointer already held.
NextPtrAdoptOnce ==
    \E p \in Ptrs :
       \/ \E inst \in Types : PDefaultConstruct(p, inst)
       \/ \E inst \in Types : PConstructNull(p, inst)
       \/ \E inst \in Types, a \in Addrs, v \in Values : PConstructAdopt(p, inst, a, v)
       \/ \E a \in Addrs, v \in Values : PConstructAdoptDerived(p, a, v)
       \/ \E s \in Ptrs : PCopyConstruct(p, s)
       \/ \E s \in Ptrs : PCopyConstructFromDerived(p, s)
       \/ \E inst \in Types : \E src \in ConstArgs(inst) :
              PConstructFromConst(p, inst, src)
       \/ PDestruct(p)
       \/ \E q \in Ptrs : PSwap(p, q)
       \/ PReset(p, NullArg)
       \/ \E a \in Addrs, v \in Values : PResetNew(p, a, v)
       \/ PResetDerived(p, NullArg)
       \/ \E a \in Addrs, v \in Values : PResetDerivedNew(p, a, v)
       \/ \E s \in Ptrs : PAssign(p, s)
       \/ \E s \in Ptrs : PAssignFromDerived(p, s)
       \/ \E src \in ConstArgs(ptrs[p].inst) : PAssignPointer(p, src)
       \/ \E src \in ConstArgs("D") : PAssignDerivedPointer(p, src)

PNoOp == [op |-> "none", dst |-> 0, src |-> 0, arg |-> NullArg, pre |-> NoPtr,
          preSrc |-> NoPtr, ev |-> <<>>]

InitPtr ==
    /\ heap = [a \in Addrs |-> NoObject]
    /\ ptrs = [p \in Ptrs |-> NoPtr]
    /\ plast = PNoOp

Init == InitResult /\ InitPtr

SpecResult == Init /\ [][NextResult]_vars

SpecResultThrows == Init /\ [][NextResult \/ NextThrows]_vars

SpecPtr == Init /\ [][NextPtr]_vars

SpecPtrAdoptOnce == Init /\ [][NextPtrAdoptOnce]_vars

SpecPtrThrows == Init /\ [][NextPtr \/ NextPtrThrows]_vars

(***************************************************************************)
(* Properties of Result.                                                   *)
(***************************************************************************)
CopyMoveCtorOps == {"Result(const Result&)", "Result(Result&&)"}
ValueAssignOps == {"=(const T&)", "=(T&&)"}
ResultAssignOps == {"=(const Result&)", "=(Result&&)"}
MoveFromResultOps == {"Result(Result&&)", "=(Result&&)"}

\* The places in a run of events where a payload was destroyed / constructed.
Destroyed(ev) == {i \in 1..Len(ev) : ev[i].e \in {"dtor", "release"}}
Constructed(ev) == {i \in 1..Len(ev) : ev[i].e \in {"ctor_copy", "ctor_default", "ctor_move"}}

\* C1: the discriminant matches the storage: state_ is succeeded iff an S
\* object is live in storage_, failed iff an F object is, uninit iff none is.
C1_StateMatchesStorage ==
    \A r \in Results :
        res[r].exists =>
            /\ (res[r].state = "succeeded") <=> (res[r].live = "S")
            /\ (res[r].state = "failed") <=> (res[r].live = "F")
            /\ (res[r].state = "uninit") <=> (res[r].live = "none")

\* C2: a Result copy- or move-constructed from a Result has the state the
\* source had; one made from an uninit source is uninit: it converts to
\* false, dereferencing raises CantDereference and fail() raises
\* NotHaveFailedObject.
C2_ConstructedStateIsSourceState ==
    last.op \in CopyMoveCtorOps =>
        LET d == res[last.dst]
        IN  /\ d.state = last.preSrc.state
            /\ last.preSrc.state = "uninit" =>
                   /\ ~OpBool(d)
                   /\ Deref(d) = "CantDereference"
                   /\ Fail(d) = "NotHaveFailedObject"

\* C6: an assignment leaves the target succeeded (from an S), failed (from
\* an F) or in the state the source Result had (uninit from an uninit one,
\* fail() then raising NotHaveFailedObject); a payload the target held is
\* destroyed, and before any payload is constructed.
C6_AssignmentSetsStateAfterDestroy ==
    last.op \in ValueAssignOps \cup ResultAssignOps =>
        LET d == res[last.dst]
            ev == last.ev
        IN  /\ last.op \in ValueAssignOps => d.state = StateOfKind(last.kind)
            /\ last.op \in ResultAssignOps => d.state = last.preSrc.state
            /\ (last.op \in ResultAssignOps /\ last.preSrc.state = "uninit") =>
                   /\ d.state = "uninit"
                   /\ Fail(d) = "NotHaveFailedObject"
            /\ last.preDst.live # "none" =>
                   \E i \in Destroyed(ev) :
                       /\ ev[i].r = last.dst
                       /\ ev[i].k = last.preDst.live
                       /\ ev[i].ok
                       /\ \A j \in Constructed(ev) : i < j

\* C6's case: a failed Result assigned over a succeeded one.
C6_Witness ==
    /\ last.op = "=(const Result&)"
    /\ last.dst # last.src
    /\ last.preDst = [state |-> "succeeded", live |-> "S"]
    /\ last.preSrc = [state |-> "failed", live |-> "F"]
    /\ res[last.dst].state = "failed"
    /\ res[last.dst].live = "F"
    /\ Fail(res[last.dst]) = "value"

\* C7: self-assignment destroys the held payload at most once and leaves
\* the state as it was; a Result that is not uninit then holds one live
\* payload of its state's kind.
C7_SelfAssignmentKeepsState ==
    (last.op \in ResultAssignOps /\ last.dst = last.src) =>
        LET d == res[last.dst]
        IN  /\ Cardinality(Destroyed(last.ev)) <= 1
            /\ d.state = last.preDst.state
            /\ d.state \in {"succeeded", "failed"} => d.live = KindOf(d.state)
            /\ d.state = "uninit" => d.live = "none"

\* C7's case: a succeeded Result assigned to itself.
C7_Witness ==
    /\ last.op = "=(const Result&)"
    /\ last.dst = last.src
    /\ last.preDst = [state |-> "succeeded", live |-> "S"]
    /\ Cardinality(Destroyed(last.ev)) = 1
    /\ res[last.dst].live = "S"

\* C8, as claimed: after a move from a succeeded or failed Result, the
\* source Result is uninit and holds nothing.
C8_MovedFromResultIsUninit ==
    (last.op \in MoveFromResultOps /\ last.preSrc.state \in {"succeeded", "failed"}) =>
        /\ res[last.src].state = "uninit"
        /\ res[last.src].live = "none"

\* C8, amended: after a move from a succeeded or failed Result, the source
\* Result has the state it had, and a payload it held is still live in its
\* storage, moved from.
C8_MovedFromResultKeepsState ==
    (last.op \in MoveFromResultOps /\ last.preSrc.state \in {"succeeded", "failed"}) =>
        LET s == res[last.src]
        IN  /\ s.exists
            /\ s.state = last.preSrc.state
            /\ last.preSrc.live # "none" => s.live = last.preSrc.live
            /\ (last.preSrc.live # "none" /\ last.src # last.dst) => s.val = MovedFrom

\* C8's case: a Result move-constructed from a succeeded Result.
C8_Witness ==
    /\ last.op = "Result(Result&&)"
    /\ last.preSrc = [state |-> "succeeded", live |-> "S"]
    /\ res[last.dst].state = "succeeded"
    /\ res[last.src].state = "succeeded"
    /\ res[last.src].val = MovedFrom

(***************************************************************************)
(* Properties of DeepCopyPtr.                                              *)
(***************************************************************************)
ResetOps == {"reset(T*)", "reset(D*)"}
PCopyOps == {"DeepCopyPtr(const ThisType&)", "DeepCopyPtr(const DeepCopyPtr<D>&)",
             "DeepCopyPtr(const T*)", "=(const ThisType&)",
             "=(const DeepCopyPtr<D>&)", "=(const T*)", "=(const D*)"}

Deleted(ev) == {i \in 1..Len(ev) : ev[i].e = "delete"}

\* C3: the deleter is non-null iff the held pointer is non-null.
C3_DeleterIffPointer ==
    \A p \in Ptrs :
        ptrs[p].exists => ((ptrs[p].deleter # "null") <=> (ptrs[p].ptr # NULL))

\* C4: the type the deleter remembers is the type the held object was
\* allocated as.
C4_DeleterRemembersAllocatedType ==
    \A p \in Ptrs :
        (ptrs[p].exists /\ ptrs[p].ptr # NULL /\ heap[ptrs[p].ptr].live) =>
            ptrs[p].deleter = heap[ptrs[p].ptr].type

\* C5: a DeepCopyPtr<C> copy-constructed from a DeepCopyPtr<C> that holds a D
\* holds a new D, with a deleter for D.
C5_CopyKeepsDynamicType ==
    (/\ plast.op = "DeepCopyPtr(const ThisType&)"
     /\ ptrs[plast.src].inst = "C"
     /\ plast.arg.addr # NULL
     /\ heap[plast.arg.addr].live
     /\ heap[plast.arg.addr].type = "D"
     /\ ptrs[plast.src].deleter = "D") =>
        LET d == ptrs[plast.dst]
        IN  /\ d.ptr # NULL
            /\ heap[d.ptr].type = "D"
            /\ d.deleter = "D"

\* C9: reset(p) with p the address held is a no-op, for reset(element_type *)
\* and for reset(Other *): nothing is deleted, and the pointer and the deleter
\* are what they were.
C9_ResetToHeldIsNoOp ==
    (plast.op \in ResetOps /\ plast.arg.addr = plast.pre.ptr) =>
        /\ Deleted(plast.ev) = {}
        /\ ptrs[plast.dst].ptr = plast.pre.ptr
        /\ ptrs[plast.dst].deleter = plast.pre.deleter
        /\ plast.pre.ptr # NULL => heap[plast.pre.ptr].live

\* C10: after a copy construction or copy assignment from a non-null source
\* the target holds a live object with the source pointee's value, which is
\* a new object at another address than the source unless the source pointer
\* is the address the target already held; from a null source the target is
\* null; and no two DeepCopyPtr hold the same non-null address.
C10_CopiesNeverAlias ==
    /\ (plast.op \in PCopyOps /\ plast.src # plast.dst) =>
           LET d == ptrs[plast.dst]
           IN  IF plast.arg.addr = NULL THEN d.ptr = NULL
               ELSE /\ d.ptr # NULL
                    /\ heap[d.ptr].live
                    /\ heap[d.ptr].val = plast.arg.val
                    /\ plast.arg.addr # plast.pre.ptr => d.ptr # plast.arg.addr
    /\ \A p, q \in Ptrs :
           (p # q /\ ptrs[p].exists /\ ptrs[q].exists /\ ptrs[p].ptr = ptrs[q].ptr) =>
               ptrs[p].ptr = NULL

PAssignOps == {"=(const ThisType&)", "=(const DeepCopyPtr<D>&)", "=(const T*)", "=(const D*)"}

\* C11: assigning a null source (a null DeepCopyPtr<T> or DeepCopyPtr<D>, a
\* null T * or D *, the literal 0) to a non-null DeepCopyPtr leaves it null,
\* and destroys the pointee it held exactly once.
C11_NullAssignmentDestroysOnce ==
    (/\ plast.op \in PAssignOps
     /\ plast.arg.addr = NULL
     /\ plast.pre.ptr # NULL) =>
        /\ ptrs[plast.dst].ptr = NULL
        /\ ~PBool(ptrs[plast.dst])
        /\ Cardinality(Deleted(plast.ev)) = 1
        /\ \A i \in Deleted(plast.ev) : plast.ev[i].a = plast.pre.ptr /\ plast.ev[i].ok

PointerAssignOps == {"=(const T*)", "=(const D*)"}
Allocated(ev) == {i \in 1..Len(ev) : ev[i].e = "new"}

\* The assignments that return at once: p = p, and p = q with q the address
\* p holds, for operator=(const element_type *const).
AssignReturnsEarly ==
    \/ plast.op = "=(const ThisType&)" /\ plast.src = plast.dst
    \/ plast.op = "=(const T*)" /\ plast.arg.addr = plast.pre.ptr

\* C12, as claimed: assignment from a non-null raw pointer that is not
\* const adopts it: the address held afterwards is the pointer assigned and
\* nothing is allocated.  (A T * or D * argument converts to the const T *const
\* or const D *const parameter: it takes the pointer overloads.)
C12_RawPointerAssignmentAdopts ==
    (/\ plast.op \in PointerAssignOps
     /\ plast.arg.addr # NULL
     /\ plast.arg.addr # plast.pre.ptr) =>
        /\ ptrs[plast.dst].ptr = plast.arg.addr
        /\ Allocated(plast.ev) = {}

\* C12, amended: assignment from a non-null raw pointer, const or not, clones
\* as assignment from a DeepCopyPtr does.  Unless it returns at once, the
\* assignment first runs the deleter the target had on the pointer it held,
\* then allocates one object, which the target holds afterwards; a pointer
\* assigned that is not the address the target held is not the address it
\* holds afterwards, and the object held has the value of the one assigned.
C12_AssignmentClones ==
    (/\ plast.op \in PAssignOps
     /\ plast.arg.addr # NULL
     /\ ~AssignReturnsEarly) =>
        LET ev == plast.ev
            d  == ptrs[plast.dst]
        IN  /\ Cardinality(Allocated(ev)) = 1
            /\ \A i \in Allocated(ev) :
                  /\ ev[i].a = d.ptr
                  /\ \A j \in Deleted(ev) : j < i
            /\ (plast.pre.deleter # "null" /\ plast.pre.ptr # NULL) =>
                  /\ Cardinality(Deleted(ev)) = 1
                  /\ \A j \in Deleted(ev) :
                        ev[j].a = plast.pre.ptr /\ ev[j].t = plast.pre.deleter
            /\ d.ptr # NULL /\ heap[d.ptr].live
            /\ (plast.op \in PointerAssignOps /\ plast.arg.addr # plast.pre.ptr) =>
                  /\ d.ptr # plast.arg.addr
                  /\ heap[d.ptr].val = plast.arg.val

\* A DeepCopyPtr that held an object was assigned a pointer to an object of
\* the client's, or to the pointee of another DeepCopyPtr.
C12_Witness ==
    /\ plast.op \in PointerAssignOps
    /\ plast.arg.addr # NULL
    /\ plast.arg.addr # plast.pre.ptr
    /\ plast.pre.ptr # NULL
    /\ Deleted(plast.ev) # {}
    /\ Allocated(plast.ev) # {}

NewDeleters(ev) == {i \in 1..Len(ev) : ev[i].e = "new_deleter"}

\* reset(p) with p another address than the one held has adopted p: the
\* DeepCopyPtr holds p itself, nothing was allocated for it but what the caller
\* allocated at p, and the deleter is one for the type p points to (none
\* when p is null).
ResetAdopted ==
    LET d == ptrs[plast.dst]
    IN  /\ d.ptr = plast.arg.addr
        /\ \A i \in Allocated(plast.ev) : plast.ev[i].a = plast.arg.addr
        /\ IF plast.arg.addr = NULL THEN d.deleter = "null"
           ELSE /\ heap[d.ptr].live
                /\ d.deleter = heap[d.ptr].type
                /\ d.deleter = (IF plast.op = "reset(D*)" THEN "D" ELSE d.inst)

\* C18, as claimed: reset(p) with p another address than the one held
\* destroys the pointee held, if any, exactly once with the deleter held, and
\* then adopts p.
C18_ResetDestroysThenAdopts ==
    (plast.op \in ResetOps /\ plast.arg.addr # plast.pre.ptr) =>
        LET ev == plast.ev
        IN  /\ ResetAdopted
            /\ Cardinality(Deleted(ev)) = (IF plast.pre.ptr = NULL THEN 0 ELSE 1)
            /\ \A j \in Deleted(ev) :
                  /\ ev[j].a = plast.pre.ptr /\ ev[j].t = plast.pre.deleter /\ ev[j].ok
                  /\ \A i \in NewDeleters(ev) : j < i

\* C18, amended: reset(p) with p another address than the one held adopts p
\* first, in a temporary that allocates the deleter and exchanges fields with
\* *this, and then runs the deleter that was held, once, on the pointer that
\* was held, if any.
C18_ResetAdoptsThenDeletes ==
    (plast.op \in ResetOps /\ plast.arg.addr # plast.pre.ptr) =>
        LET ev == plast.ev
        IN  /\ ResetAdopted
            /\ Cardinality(Deleted(ev)) = (IF plast.pre.ptr = NULL THEN 0 ELSE 1)
            /\ Cardinality(NewDeleters(ev)) = (IF plast.arg.addr = NULL THEN 0 ELSE 1)
            /\ \A j \in Deleted(ev) :
                  /\ ev[j].a = plast.pre.ptr /\ ev[j].t = plast.pre.deleter
                  /\ \A i \in NewDeleters(ev) : i < j

\* A DeepCopyPtr that held an object was reset to a new object.
C18_Witness ==
    /\ plast.op \in ResetOps
    /\ plast.pre.ptr # NULL
    /\ plast.arg.addr # NULL
    /\ plast.arg.addr # plast.pre.ptr
    /\ Deleted(plast.ev) # {}
    /\ ptrs[plast.dst].ptr = plast.arg.addr

\* C19: swap exchanges the pointers and the deleters of two DeepCopyPtr of
\* the same instantiation and does nothing else: it allocates and deletes
\* nothing, and a second swap of the two restores both.
C19_SwapExchanges ==
    plast.op = "swap" =>
        LET p == plast.dst
            q == plast.src
            again == swap(swap(PStart, p, q), p, q)
        IN  /\ ptrs[p] = [plast.pre EXCEPT !.ptr = plast.preSrc.ptr,
                                           !.deleter = plast.preSrc.deleter]
            /\ ptrs[q] = [plast.preSrc EXCEPT !.ptr = plast.pre.ptr,
                                              !.deleter = plast.pre.deleter]
            /\ plast.ev = <<>>
            /\ again.ptrs = ptrs
            /\ again.heap = heap
            /\ again.ev = <<>>

\* Two DeepCopyPtr that held different objects with different deleters were
\* swapped.
C19_Witness ==
    /\ plast.op = "swap"
    /\ plast.dst # plast.src
    /\ plast.pre.ptr # NULL
    /\ plast.preSrc.ptr # NULL
    /\ plast.pre.deleter # plast.preSrc.deleter
    /\ ptrs[plast.dst].ptr = plast.preSrc.ptr

\* C21: when the pointee's copy constructor or the allocation of the
\* capability throws in a construction or an assignment, nothing leaks and
\* the instance stays well-defined: every pointee the operation adopted or
\* cloned is held by an instance with a capability to destroy it, no
\* capability is allocated that no instance holds, and the instance is not
\* left with a non-null pointer and no capability.
C21_ThrowLeaksNothing ==
    plast.op \in PThrowOps =>
        /\ \A i \in Allocated(plast.ev) :
               \E q \in Ptrs : /\ ptrs[q].exists
                               /\ ptrs[q].ptr = plast.ev[i].a
                               /\ ptrs[q].deleter # "null"
        /\ NewDeleters(plast.ev) = {}
        /\ ~(ptrs[plast.dst].ptr # NULL /\ ptrs[plast.dst].deleter = "null")

\* The DeepCopyPtr objects that hold a capability, among those in ps.
WithDeleter(ps, f) == {p \in ps : f[p].deleter # "null"}

\* The slots the last operation worked on.
Touched == {plast.dst} \cup (IF plast.src = 0 THEN {} ELSE {plast.src})

\* C23: when each raw pointer is handed over for adoption at most once,
\* every owned heap object is destroyed exactly once (each delete is of a live
\* object, through a deleter of the type it was allocated as), no instance
\* holds the address of a destroyed object, and nothing is left allocated
\* without an owner: each live object is held by exactly one instance, and
\* the capability objects allocated and deleted by an operation are those its
\* instances gained and lost.
C23_OwnedObjectsDestroyedOnce ==
    /\ \A i \in Deleted(plast.ev) : plast.ev[i].ok
    /\ \A p \in Ptrs :
           (ptrs[p].exists /\ ptrs[p].ptr # NULL) => heap[ptrs[p].ptr].live
    /\ \A a \in Addrs :
           heap[a].live =>
               Cardinality({p \in Ptrs : ptrs[p].exists /\ ptrs[p].ptr = a}) = 1
    /\ plast.op # "none" =>
           LET pre == [p \in Touched |->
                          IF p = plast.dst THEN plast.pre ELSE plast.preSrc]
               made == Cardinality(NewDeleters(plast.ev))
               gone == Cardinality({i \in 1..Len(plast.ev) :
                                       plast.ev[i].e = "delete_deleter"})
           IN  Cardinality(WithDeleter(Touched, ptrs)) + gone =
                   Cardinality(WithDeleter(Touched, pre)) + made

(***************************************************************************)
(* Properties of Result: the accessors.  The state of a Result is what     *)
(* its operations made of it: Succeeded or Failed when its storage holds   *)
(* a payload of that kind, Uninit when it holds none.                      *)
(***************************************************************************)
LogicalState(R) ==
    CASE R.live = "S" -> "succeeded"
      [] R.live = "F" -> "failed"
      [] OTHER -> "uninit"

\* C13: fail() returns the Failure payload exactly when the Result is
\* Failed, and raises NotHaveFailedObject exactly when it is Succeeded or
\* Uninit: an Uninit Result never yields a Failure value.
C13_FailExactlyWhenFailed ==
    \A r \in Results :
        res[r].exists =>
            /\ (Fail(res[r]) = "value") <=> (LogicalState(res[r]) = "failed")
            /\ (Fail(res[r]) = "NotHaveFailedObject") <=>
                   (LogicalState(res[r]) \in {"succeeded", "uninit"})

\* C14: operator* and operator-> give the Success payload exactly when the
\* Result is Succeeded, and raise CantDereference exactly when it is Failed or
\* Uninit.
C14_DerefExactlyWhenSucceeded ==
    \A r \in Results :
        res[r].exists =>
            /\ (Deref(res[r]) = "value") <=> (LogicalState(res[r]) = "succeeded")
            /\ (Deref(res[r]) = "CantDereference") <=>
                   (LogicalState(res[r]) \in {"failed", "uninit"})

\* C15: operator bool is true iff the Result is Succeeded, false when it is
\* Failed or Uninit.
C15_BoolIffSucceeded ==
    \A r \in Results :
        res[r].exists => (OpBool(res[r]) <=> (LogicalState(res[r]) = "succeeded"))

ValueOps == {"Result(const T&)", "Result(T&&)", "=(const T&)", "=(T&&)"}

\* The Result R holds a payload of kind k with value v, and its accessors
\* say so: for an S, true and the payload from operator*; for an F, false,
\* the payload from fail(), and CantDereference.
Yields(R, k, v) ==
    /\ R.live = k
    /\ R.val = v
    /\ OpBool(R) <=> (k = "S")
    /\ k = "S" => Deref(R) = "value"
    /\ k = "F" => Fail(R) = "value" /\ Deref(R) = "CantDereference"

\* C16: a Result constructed from or assigned a value s of S, or copied from
\* a Result that holds s, is true and dereferences to s; one constructed from
\* or assigned a value f of F, or copied from a Result that holds f, is false
\* and fail() returns f.
C16_ValueRoundTrip ==
    /\ last.op \in ValueOps => Yields(res[last.dst], last.kind, last.val)
    /\ (/\ last.op \in {"Result(const Result&)", "=(const Result&)"}
        /\ last.src # last.dst
        /\ last.preSrc.live \in Kinds
        /\ last.preSrc.state = StateOfKind(last.preSrc.live)) =>
           Yields(res[last.dst], last.preSrc.live, last.val)

\* A Failed Result with a value that is not the default was copied; an S with
\* such a value was assigned to a Result that held an F.
C16_Witness ==
    \/ /\ last.op = "Result(const Result&)"
       /\ last.preSrc.live = "F"
       /\ last.val = MaxVal
       /\ res[last.dst].val = MaxVal
    \/ /\ last.op = "=(const T&)"
       /\ last.kind = "S"
       /\ last.preDst.live = "F"
       /\ last.val = MaxVal

\* C17: move construction from a payload rvalue, or from a Result rvalue
\* that is Succeeded or Failed, builds the new payload with one call of the
\* payload type's move constructor and none of its copy constructor, from the
\* source payload's value; the payload of a source Result is left moved-from.
C17_MoveConstructionMoves ==
    /\ last.op = "Result(T&&)" =>
          /\ last.ev = <<Ev("ctor_move", last.dst, last.kind, TRUE)>>
          /\ res[last.dst].live = last.kind
          /\ res[last.dst].val = last.val
    /\ (/\ last.op = "Result(Result&&)"
        /\ last.preSrc.live \in Kinds
        /\ last.preSrc.state = StateOfKind(last.preSrc.live)) =>
          LET k == last.preSrc.live
          IN  /\ last.ev = <<Ev("ctor_move", last.dst, k, TRUE)>>
              /\ res[last.dst].live = k
              /\ res[last.dst].val = last.val
              /\ res[last.src].live = k
              /\ res[last.src].val = MovedFrom

\* A Result was move-constructed from a Succeeded Result whose payload was
\* not moved-from.
C17_Witness ==
    /\ last.op = "Result(Result&&)"
    /\ last.preSrc.live = "S"
    /\ last.val = MaxVal
    /\ res[last.dst].val = MaxVal
    /\ res[last.src].val = MovedFrom

ThrowOps == {"=(T) throws", "=(Result) throws"}

\* C20: when a payload constructor or assignment operator throws during an
\* assignment to a Result, state_ afterwards is an enumerator that names
\* exactly the payload that lives in storage_ (none, for uninit), and
\* destroying the Result then destroys that payload once and nothing else.
C20_ThrowLeavesTargetWellDefined ==
    last.op \in ThrowOps =>
        LET R == res[last.dst]
        IN  /\ R.state \in State
            /\ R.live = KindOf(R.state)
            /\ destroy(Start, last.dst).ev =
                  (IF R.live = "none" THEN <<>>
                   ELSE <<Ev("dtor", last.dst, R.live, TRUE)>>)

\* The default constructor threw in an assignment to a Result that held a
\* payload; the assignment operator threw in another.
C20_Witness ==
    /\ last.op \in ThrowOps
    /\ last.preDst.live = "S"
    /\ \/ last.ev[Len(last.ev)].e = "ctor_default_throws" /\ res[last.dst].state = "uninit"
       \/ last.ev[Len(last.ev)].e = "assign_throws" /\ res[last.dst].state = "failed"

(***************************************************************************)
(* Properties of Result: the lifetime of the payloads.                     *)
(***************************************************************************)
\* Whether a payload lives in the storage of last.dst just before event j of
\* the last operation: what the operation found there, unless an earlier
\* event of the operation constructed or destroyed a payload.
LiveBefore(j) ==
    LET ev == last.ev
        before == {i \in Destroyed(ev) \cup Constructed(ev) : i < j}
    IN  IF before = {} THEN last.preDst.live # "none"
        ELSE LET i == CHOOSE i \in before : \A h \in before : h <= i
             IN  i \in Constructed(ev)

\* C22: every payload constructed in a Result's storage is destroyed exactly
\* once: a destructor runs only on a payload that lives in the storage and is
\* of the destructor's type (never on storage that holds none), a payload is
\* constructed only in storage that holds none, and the destruction of a
\* Result destroys the payload it holds.
C22_EachPayloadDestroyedOnce ==
    LET ev == last.ev
    IN  /\ \A i \in Destroyed(ev) : ev[i].ok /\ LiveBefore(i)
        /\ \A j \in Constructed(ev) : ~LiveBefore(j)
        /\ (last.op = "~Result()" /\ last.preDst.live # "none") =>
               \E i \in Destroyed(ev) : ev[i].k = last.preDst.live

\* C24: self-assignment of a Result keeps its value: a Succeeded Result
\* holding s still dereferences to s after r = r, a Failed one holding f still
\* gives f from fail().
C24_SelfAssignmentKeepsValue ==
    (/\ last.op = "=(const Result&)"
     /\ last.dst = last.src
     /\ last.preDst.live \in Kinds
     /\ last.preDst.state = StateOfKind(last.preDst.live)) =>
        Yields(res[last.dst], last.preDst.live, last.val)

====
